---- MODULE Spec2Model ----
(***************************************************************************)
(* A model of the logging setup helper: set_logger (src/logger.py), the    *)
(* configuration record LoggerTemplate (src/logger_template.py), the two   *)
(* formatters StdFormatter and FileFormatter, and the file handler         *)
(* FirstRowFileHandler, together with the parts of the logging library     *)
(* they override or call: level filtering, the handler loop of a logger,   *)
(* Formatter.format with its per-record cache of the exception text, and   *)
(* StreamHandler.emit, which reports a failing format instead of raising.  *)
(***************************************************************************)
EXTENDS Integers, Sequences, FiniteSets, TLC

VARIABLES
    level,      \* logger -> its threshold (Logger.level)
    handlers,   \* logger -> the sequence of handlers attached to it
    console,    \* the lines written to sys.stdout, in order
    files,      \* file path -> what was written to it, in order
    dirs,       \* the directories that exist
    stderr,     \* number of reports written to sys.stderr by the library
    nRecords,   \* number of log records created so far
    ret,        \* what the last set_logger call returned
    lastOp,     \* the last operation and its arguments
    silenced,   \* the last call that configured the named logger had enable_logger false
    nSetups,    \* number of set_logger calls made
    nLogs       \* number of records logged by the caller

vars == <<level, handlers, console, files, dirs, stderr, nRecords, ret,
          lastOp, silenced, nSetups, nLogs>>

-----------------------------------------------------------------------------
(* Bounds of the model *)

MaxSetups == 2
MaxLogs == 2
MaxOptionCalls == 2

-----------------------------------------------------------------------------
(* Severities *)

DEBUG == 10
INFO == 20
WARNING == 30
ERROR == 40
CRITICAL == 50
FATAL == CRITICAL

StdSeverities == {DEBUG, INFO, WARNING, ERROR, CRITICAL}
\* severities a caller may register or pass to Logger.log besides the standard ones
CustomSeverities == {25, 60}

-----------------------------------------------------------------------------
(* Loggers and the values the logger option can take *)

LOGGER_NAME == "RC_LOGGER"
\* a logger object the caller built itself
EXT_LOGGER == "EXT_LOGGER"
LoggerObjects == {LOGGER_NAME, EXT_LOGGER}
None == "None"
\* a value that is not a logging.Logger, such as a logger's name
NotALogger == "str:my_logger"

IsInstanceLogger_notNone(v) == v # None

IsInstanceLogger(v) == v \in LoggerObjects

-----------------------------------------------------------------------------
(* The configuration record *)

DefaultPath == <<"logfiles_[script]">>
DefaultName == "__DD.MM.YYYY__HH.00__.log"

LoggerTemplate_fileDebug ==
    [enable_logger |-> TRUE, enable_logfile |-> FALSE, logger |-> None,
     logfile_path |-> DefaultPath, logfile_name |-> DefaultName,
     logfile_level |-> DEBUG, log_std_level |-> DEBUG,
     show_std_traceback |-> FALSE]

LoggerTemplate ==
    [enable_logger |-> TRUE, enable_logfile |-> FALSE, logger |-> None,
     logfile_path |-> DefaultPath, logfile_name |-> DefaultName,
     logfile_level |-> INFO, log_std_level |-> DEBUG,
     show_std_traceback |-> FALSE]

FieldNames == DOMAIN LoggerTemplate

\* for key, value in kwargs.items(): if key is a field name: setattr
ApplyKwargs(kw) ==
    [f \in FieldNames |-> IF f \in DOMAIN kw THEN kw[f] ELSE LoggerTemplate[f]]

NoKwargs == [k \in {} |-> TRUE]

-----------------------------------------------------------------------------
(* Handlers and formatters *)

TB == <<"Traceback">>
NL == <<"\n">>

StdHandler(tmpl) ==
    [kind |-> "std", level |-> tmpl.log_std_level,
     enable_exceptions |-> tmpl.show_std_traceback,
     path |-> <<>>, first_run |-> FALSE, is_last_msg_exception |-> FALSE]

LogFilePath(tmpl) == <<tmpl.logfile_path, tmpl.logfile_name>>

FileHandler(tmpl) ==
    [kind |-> "file", level |-> tmpl.logfile_level,
     enable_exceptions |-> FALSE,
     path |-> LogFilePath(tmpl), first_run |-> TRUE,
     is_last_msg_exception |-> FALSE]

\* Formatter.format calls formatException only for a record that carries
\* exception info and has no exception text cached on it yet
NeedsFormatException(rec) == rec.exc_info /\ rec.exc_text = <<>>

\* Formatter.format appends a newline and the record's exception text to the
\* message line when that text is not empty
ExcTail(text) == IF text # <<>> THEN NL \o text ELSE <<>>

ColorTable ==
    (CRITICAL :> <<31, 31>>) @@ (ERROR :> <<31, 31>>) @@ (FATAL :> <<31, 31>>) @@
    (WARNING :> <<33, 33>>) @@ (DEBUG :> <<36, 37>>) @@ (INFO :> <<32, 32>>)

\* the dict's .get(levelno, 0): the default, the int 0, has no item 0 or 1;
\* it is the tuple without items here
StdColor(levelno) ==
    IF levelno \in DOMAIN ColorTable THEN ColorTable[levelno] ELSE <<>>

StdFormatException(h) == IF h.enable_exceptions THEN TB ELSE <<>>

\* StdFormatter.format: color[0] raises TypeError before anything is formatted
StdFormat(h, rec) ==
    LET color == StdColor(rec.levelno) IN
    IF Len(color) < 2
    THEN [raised |-> TRUE, rec |-> rec, c1 |-> 0, c2 |-> 0, tail |-> <<>>]
    ELSE LET text == IF NeedsFormatException(rec)
                     THEN StdFormatException(h) ELSE rec.exc_text
         IN [raised |-> FALSE, rec |-> [rec EXCEPT !.exc_text = text],
             c1 |-> color[1], c2 |-> color[2], tail |-> ExcTail(text)]

FileFormatMessage_keepFlag(h) == [h |-> h, lead_nl |-> h.is_last_msg_exception]

FileFormatMessage(h) ==
    [h |-> [h EXCEPT !.is_last_msg_exception = FALSE],
     lead_nl |-> h.is_last_msg_exception]

FileFormatException(h) ==
    [h |-> [h EXCEPT !.is_last_msg_exception = TRUE], text |-> NL \o TB]

\* FileFormatter.format: formatMessage first, then formatException if needed
FileFormat(h, rec) ==
    LET m == FileFormatMessage(h)
        called == NeedsFormatException(rec)
        e == IF called THEN FileFormatException(m.h)
             ELSE [h |-> m.h, text |-> rec.exc_text]
    IN [h |-> e.h, rec |-> [rec EXCEPT !.exc_text = e.text],
        lead_nl |-> m.lead_nl, fmt_exc |-> called, tail |-> ExcTail(e.text)]

-----------------------------------------------------------------------------
(* Emitting a record *)

World ==
    [level |-> level, handlers |-> handlers, console |-> console,
     files |-> files, dirs |-> dirs, stderr |-> stderr,
     nRecords |-> nRecords, ret |-> ret]

\* StreamHandler.emit with StdFormatter: a failing format is reported on
\* stderr by handleError and nothing is written to the stream
EmitStd(w, lg, i, rec) ==
    LET f == StdFormat(w.handlers[lg][i], rec) IN
    IF f.raised
    THEN [w |-> [w EXCEPT !.stderr = @ + 1], rec |-> rec]
    ELSE [w |-> [w EXCEPT !.console = Append(@,
                    [h |-> <<lg, i>>, rec |-> rec.id, c1 |-> f.c1, c2 |-> f.c2,
                     levelno |-> rec.levelno, msg |-> rec.msg, tail |-> f.tail])],
          rec |-> f.rec]

Banner(hid) ==
    [h |-> hid, kind |-> "banner", rec |-> 0, lead_nl |-> FALSE, levelno |-> 0,
     msg |-> <<"API Launch">>, exc_info |-> FALSE, fmt_exc |-> FALSE, tail |-> <<>>]

FirstRowEmit_keepFirstRun(h) == h

\* FirstRowFileHandler.emit: self.first_run = False
FirstRowEmit(h) == [h EXCEPT !.first_run = FALSE]

\* FirstRowFileHandler.emit, then FileHandler.emit with FileFormatter
EmitFile(w, lg, i, rec) ==
    LET h0 == w.handlers[lg][i]
        pre == IF h0.first_run THEN <<Banner(<<lg, i>>)>> ELSE <<>>
        f == FileFormat(FirstRowEmit(h0), rec)
        line == [h |-> <<lg, i>>, kind |-> "line", rec |-> rec.id,
                 lead_nl |-> f.lead_nl, levelno |-> rec.levelno, msg |-> rec.msg,
                 exc_info |-> rec.exc_info, fmt_exc |-> f.fmt_exc, tail |-> f.tail]
    IN [w |-> [w EXCEPT !.handlers[lg][i] = f.h,
                        !.files[h0.path] = @ \o pre \o <<line>>],
        rec |-> f.rec]

RECURSIVE Dispatch(_, _, _, _)
\* the loop of Logger.callHandlers: every handler whose level admits the
\* record handles the same record object, in the order of attachment
Dispatch(w, lg, rec, i) ==
    IF i > Len(w.handlers[lg]) THEN w
    ELSE LET h == w.handlers[lg][i] IN
         IF rec.levelno >= h.level
         THEN LET r == IF h.kind = "std" THEN EmitStd(w, lg, i, rec)
                       ELSE EmitFile(w, lg, i, rec)
              IN Dispatch(r.w, lg, r.rec, i + 1)
         ELSE Dispatch(w, lg, rec, i + 1)

\* with no handler at all the library's last-resort handler writes records
\* of WARNING and above to stderr
CallHandlers(w, lg, rec) ==
    IF Len(w.handlers[lg]) = 0
    THEN IF rec.levelno >= WARNING THEN [w EXCEPT !.stderr = @ + 1] ELSE w
    ELSE Dispatch(w, lg, rec, 1)

\* Logger.log / debug / error / exception: isEnabledFor, then a new record
LoggerLog(w, lg, levelno, msg, exc) ==
    IF levelno >= w.level[lg]
    THEN CallHandlers([w EXCEPT !.nRecords = @ + 1], lg,
                      [id |-> w.nRecords + 1, levelno |-> levelno, msg |-> msg,
                       exc_info |-> exc, exc_text |-> <<>>])
    ELSE w

-----------------------------------------------------------------------------
(* set_logger *)

DisabledLevel_critical == CRITICAL

DisabledLevel == CRITICAL + 1

Prefixes(p) == {SubSeq(p, 1, k) : k \in 1..Len(p)}

LogfileMsg(tmpl) == <<"Logging to the file", LogFilePath(tmpl)>>
NoFileMsg == <<"Logging without file">>

\* lines 38-64, on the logger tmpl.logger
Configure(w, tmpl) ==
    LET lg == tmpl.logger IN
    IF ~tmpl.enable_logger
    THEN [w EXCEPT !.level[lg] = DisabledLevel, !.ret = lg]
    ELSE LET w1 == [w EXCEPT !.level[lg] = DEBUG,
                             !.handlers[lg] = Append(@, StdHandler(tmpl)),
                             !.ret = lg]
         IN IF ~tmpl.enable_logfile
            THEN LoggerLog(w1, lg, DEBUG, NoFileMsg, FALSE)
            ELSE LET p == LogFilePath(tmpl)
                     w2 == [w1 EXCEPT
                              !.dirs = @ \cup Prefixes(tmpl.logfile_path),
                              !.files = IF p \in DOMAIN @ THEN @ ELSE @ @@ (p :> <<>>),
                              !.handlers[lg] = Append(@, FileHandler(tmpl))]
                 IN LoggerLog(w2, lg, DEBUG, LogfileMsg(tmpl), FALSE)

SetLogger_noReturn(w, kw) ==
    LET tmpl == ApplyKwargs(kw) IN
    IF ~IsInstanceLogger(tmpl.logger)
    THEN Configure(w, [tmpl EXCEPT !.logger = LOGGER_NAME])
    ELSE Configure(w, tmpl)

SetLogger(w, kw) ==
    LET tmpl == ApplyKwargs(kw) IN
    IF ~IsInstanceLogger(tmpl.logger)
    THEN Configure(w, [tmpl EXCEPT !.logger = LOGGER_NAME])
    ELSE [w EXCEPT !.ret = tmpl.logger]

-----------------------------------------------------------------------------
(* The calls the model makes *)

TmpLogs == <<"tmp", "logs">>

\* calls of the main specification: each is a set of keyword arguments
MainCalls ==
    { NoKwargs,
      [enable_logger |-> FALSE],
      [show_std_traceback |-> TRUE],
      [log_std_level |-> ERROR],
      [enable_logger |-> TRUE, enable_logfile |-> TRUE,
       logfile_path |-> TmpLogs, logfile_name |-> "test.log"],
      [enable_logfile |-> TRUE, logfile_level |-> DEBUG],
      [enable_logfile |-> TRUE, logfile_level |-> DEBUG, show_std_traceback |-> TRUE],
      [logger |-> EXT_LOGGER, enable_logfile |-> TRUE] }

\* the calls of the options specification: each option absent or given a
\* value that is not its default; "enabled" is not a field of the record
OptOne(k, v) == {NoKwargs, k :> v}
AllKwargs ==
    { a @@ b @@ c @@ d @@ e @@ g @@ h :
        a \in OptOne("enable_logger", FALSE),
        b \in OptOne("enable_logfile", TRUE),
        c \in {NoKwargs} \cup {"logger" :> v : v \in {NotALogger, EXT_LOGGER, LOGGER_NAME}},
        d \in {NoKwargs, [logfile_path |-> TmpLogs, logfile_name |-> "test.log"]},
        e \in OptOne("logfile_level", DEBUG),
        g \in OptOne("show_std_traceback", TRUE),
        h \in OptOne("enabled", FALSE) }

LogInputs ==
    {<<l, FALSE>> : l \in StdSeverities \cup CustomSeverities} \cup {<<ERROR, TRUE>>}

UserMsg == <<"message">>

-----------------------------------------------------------------------------
(* The state machine *)

Init ==
    /\ level = [lg \in LoggerObjects |-> WARNING]
    /\ handlers = [lg \in LoggerObjects |-> <<>>]
    /\ console = <<>>
    /\ files = [p \in {} |-> <<>>]
    /\ dirs = {<<"tmp">>}
    /\ stderr = 0
    /\ nRecords = 0
    /\ ret = None
    /\ lastOp = [kind |-> "init", kw |-> NoKwargs, levelno |-> 0, exc |-> FALSE]
    /\ silenced = FALSE
    /\ nSetups = 0
    /\ nLogs = 0

Apply(w) ==
    /\ level' = w.level
    /\ handlers' = w.handlers
    /\ console' = w.console
    /\ files' = w.files
    /\ dirs' = w.dirs
    /\ stderr' = w.stderr
    /\ nRecords' = w.nRecords
    /\ ret' = w.ret

Call(kw) ==
    /\ Apply(SetLogger(World, kw))
    /\ lastOp' = [kind |-> "setup", kw |-> kw, levelno |-> 0, exc |-> FALSE]
    /\ silenced' = IF IsInstanceLogger(ApplyKwargs(kw).logger) THEN silenced
                   ELSE ~ApplyKwargs(kw).enable_logger
    /\ nSetups' = nSetups + 1

\* a set_logger call of the main specification
Setup ==
    /\ nSetups < MaxSetups
    /\ \E kw \in MainCalls : Call(kw)
    /\ UNCHANGED nLogs

\* a set_logger call with any combination of options
SetupAny ==
    /\ nSetups < MaxOptionCalls
    /\ \E kw \in AllKwargs : Call(kw)
    /\ UNCHANGED nLogs

\* the caller logs one record through the named logger, once set_logger was called
Log ==
    /\ nLogs < MaxLogs
    /\ nSetups > 0
    /\ \E in \in LogInputs :
        /\ Apply(LoggerLog(World, LOGGER_NAME, in[1], UserMsg, in[2]))
        /\ lastOp' = [kind |-> "log", kw |-> NoKwargs, levelno |-> in[1], exc |-> in[2]]
    /\ nLogs' = nLogs + 1
    /\ UNCHANGED <<silenced, nSetups>>

Next == Setup \/ Log

Spec == Init /\ [][Next]_vars

NextOptions == SetupAny

SpecOptions == Init /\ [][NextOptions]_vars

-----------------------------------------------------------------------------
(* Notions the properties are stated with *)

Range(s) == {s[i] : i \in DOMAIN s}

\* the keyword arguments kw with one keyword left out
Without(kw, key) == [k \in (DOMAIN kw) \ {key} |-> kw[k]]

RCHandlers == handlers[LOGGER_NAME]

HandlerIds(kind) ==
    UNION { {<<lg, i>> : i \in {j \in 1..Len(handlers[lg]) : handlers[lg][j].kind = kind}} :
            lg \in LoggerObjects }

HandlerOf(hid) == handlers[hid[1]][hid[2]]

\* what file handler hid wrote to its file, in order: banners and lines
EntriesOf(hid) == SelectSeq(files[HandlerOf(hid).path], LAMBDA e : e.h = hid)

\* the record lines file handler hid wrote, which are the lines its formatter formatted
LinesOf(hid) == SelectSeq(EntriesOf(hid), LAMBDA e : e.kind = "line")

\* the console lines written for record id
ConsoleLinesFor(id) == SelectSeq(console, LAMBDA e : e.rec = id)

IsSetup(op) == op.kind = "setup"
IsLog(op) == op.kind = "log"

-----------------------------------------------------------------------------
(* C1 *)

\* C1: once a set_logger call with enable_logger false has configured the
\* named logger, and until a call with enable_logger true configures it
\* again, logging a record of any standard severity through the logger
\* writes nothing to the console and nothing to any file, whatever sinks
\* earlier calls attached
C1_SilencedWritesNothing ==
    [][ (silenced /\ IsLog(lastOp') /\ lastOp'.levelno \in StdSeverities)
            => (console' = console /\ files' = files) ]_vars

\* a CRITICAL record was logged while silenced, with a console sink and a
\* file sink attached that would both admit it
C1_Witness ==
    /\ silenced
    /\ IsLog(lastOp) /\ lastOp.levelno = CRITICAL
    /\ \E i, j \in 1..Len(RCHandlers) :
          /\ RCHandlers[i].kind = "std" /\ RCHandlers[i].level <= CRITICAL
          /\ RCHandlers[j].kind = "file" /\ RCHandlers[j].level <= CRITICAL

-----------------------------------------------------------------------------
(* C2 *)

-----------------------------------------------------------------------------
(* C3 *)

C3_SinkState(hid) ==
    LET es == EntriesOf(hid)
        h == HandlerOf(hid)
    IN /\ h.first_run <=> es = <<>>
       /\ es # <<>> => /\ Len(es) >= 2
                       /\ es[1].kind = "banner"
                       /\ \A k \in 2..Len(es) : es[k].kind = "line"
       /\ \A k \in 1..Len(es) : es[k].kind = "line" => es[k].levelno >= h.level

C3_BannerLeadsFirstRecord ==
    \A p \in DOMAIN files : \A k \in 1..Len(files[p]) :
        files[p][k].kind = "banner"
          => /\ k < Len(files[p])
             /\ files[p][k + 1].kind = "line"
             /\ files[p][k + 1].h = files[p][k].h

\* C3: every file handler writes its banner exactly once, as the first thing
\* it writes and directly before its first record; it is fresh exactly as
\* long as it has written nothing, and once it is not fresh it never is
\* again; a record below its level is not written and writes no banner
C3_BannerOnce ==
    /\ [](\A hid \in HandlerIds("file") : C3_SinkState(hid))
    /\ []C3_BannerLeadsFirstRecord
    /\ [][ \A hid \in HandlerIds("file") :
              ~HandlerOf(hid).first_run => ~HandlerOf(hid)'.first_run ]_vars

\* one file handler has written its banner and two records, while another,
\* at level INFO, is still fresh after a DEBUG record was logged
C3_Witness ==
    /\ IsLog(lastOp) /\ lastOp.levelno = DEBUG
    /\ \E a, b \in HandlerIds("file") :
          /\ Len(EntriesOf(a)) >= 3
          /\ HandlerOf(b).level = INFO
          /\ HandlerOf(b).first_run

-----------------------------------------------------------------------------
(* C4 *)

C4_Call ==
    [enable_logger |-> TRUE, enable_logfile |-> TRUE,
     logfile_path |-> TmpLogs, logfile_name |-> "test.log"]

C4_File == LogFilePath(ApplyKwargs(C4_Call))

C4_Called == IsSetup(lastOp) /\ DOMAIN lastOp.kw = DOMAIN C4_Call /\ lastOp.kw = C4_Call

\* C4 as stated: after that call the directory exists and the file holds the
\* banner followed by the debug line naming the file
C4_AsStated ==
    C4_Called =>
        /\ TmpLogs \in dirs
        /\ C4_File \in DOMAIN files
        /\ \E k \in 1..Len(files[C4_File]) - 1 :
              /\ files[C4_File][k].kind = "banner"
              /\ files[C4_File][k + 1].kind = "line"
              /\ files[C4_File][k + 1].levelno = DEBUG
              /\ files[C4_File][k + 1].msg = LogfileMsg(ApplyKwargs(C4_Call))

\* C4, amended: after set_logger with enable_logger and enable_logfile true,
\* an explicit path and name and every other option at its default, the
\* directory and the file exist, but the file handler the call attached has
\* written nothing, neither banner nor line: its default level INFO rejects
\* the DEBUG line naming the file, which the console handler the call
\* attached has written
C4_DiagnosticOnlyOnConsole ==
    C4_Called =>
        LET n == Len(RCHandlers) IN
        /\ TmpLogs \in dirs
        /\ C4_File \in DOMAIN files
        /\ n >= 2
        /\ RCHandlers[n].kind = "file" /\ RCHandlers[n].path = C4_File
        /\ RCHandlers[n].first_run
        /\ EntriesOf(<<LOGGER_NAME, n>>) = <<>>
        /\ \E k \in 1..Len(console) :
              /\ console[k].h = <<LOGGER_NAME, n - 1>>
              /\ console[k].rec = nRecords
              /\ console[k].levelno = DEBUG
              /\ console[k].msg = LogfileMsg(ApplyKwargs(C4_Call))

\* the call was made and left the file empty
C4_Witness ==
    /\ C4_Called
    /\ C4_File \in DOMAIN files
    /\ files[C4_File] = <<>>
    /\ TmpLogs \in dirs

-----------------------------------------------------------------------------
(* C5 *)

\* the console handlers of the named logger whose level admits levelno
AdmittingConsoleHandlers(levelno) ==
    {i \in 1..Len(RCHandlers) :
        RCHandlers[i].kind = "std" /\ levelno >= RCHandlers[i].level}

\* C5: a record whose severity is not in the color table is formatted by
\* the console formatter without failing, into a line without color codes:
\* every console handler that admits such a record writes a line for it,
\* and nothing is reported on stderr
C5_UnmappedSeverityPlain ==
    (/\ IsLog(lastOp)
     /\ lastOp.levelno \notin DOMAIN ColorTable
     /\ lastOp.levelno >= level[LOGGER_NAME]
     /\ RCHandlers # <<>>)
      => /\ \A i \in AdmittingConsoleHandlers(lastOp.levelno) :
              \E k \in 1..Len(console) :
                  /\ console[k].h = <<LOGGER_NAME, i>>
                  /\ console[k].rec = nRecords
                  /\ console[k].c1 = 0 /\ console[k].c2 = 0
         /\ \A i \in AdmittingConsoleHandlers(lastOp.levelno) :
              ~StdFormat(RCHandlers[i],
                         [id |-> nRecords, levelno |-> lastOp.levelno, msg |-> UserMsg,
                          exc_info |-> lastOp.exc, exc_text |-> <<>>]).raised

-----------------------------------------------------------------------------
(* C6 *)

C6_FormatterState(hid) ==
    LET L == LinesOf(hid) IN
    /\ \A k \in 1..Len(L) : L[k].lead_nl <=> (k > 1 /\ L[k - 1].fmt_exc)
    /\ HandlerOf(hid).is_last_msg_exception <=> (Len(L) > 0 /\ L[Len(L)].fmt_exc)

\* C6: for each file formatter, a formatted line begins with a newline
\* exactly when the line the same formatter formatted just before it had
\* its exception text formatted by formatException; so the line after an
\* exception is prefixed and the one after that is not, unless the line
\* between them had an exception formatted too; the flag is set exactly
\* when the last line formatted had its exception formatted
C6_NewlineAfterException ==
    \A hid \in HandlerIds("file") : C6_FormatterState(hid)

\* one formatter formatted an exception, then a prefixed line without an
\* exception, then a line that is not prefixed
C6_Witness ==
    \E hid \in HandlerIds("file") :
        LET L == LinesOf(hid) IN
        \E k \in 1..Len(L) - 2 :
            /\ L[k].fmt_exc
            /\ L[k + 1].lead_nl /\ ~L[k + 1].fmt_exc /\ L[k + 1].rec # L[k].rec
            /\ ~L[k + 2].lead_nl

-----------------------------------------------------------------------------
(* C7 *)

\* C7: a console handler set up with show_std_traceback false writes no line
\* holding traceback text, whatever other handlers the logger has
C7_NoConsoleTraceback ==
    \A k \in 1..Len(console) :
        ~HandlerOf(console[k].h).enable_exceptions
            => "Traceback" \notin Range(console[k].tail)

-----------------------------------------------------------------------------
(* C8 *)

\* C8: a keyword that is not a field of the configuration record changes
\* nothing: the call returns and does what the call without it does; and a
\* logger option that is not a logging.Logger is treated as not given: the
\* call returns the named logger and does what the call without it does
C8_TolerantOptions ==
    [][ IsSetup(lastOp') =>
          /\ "enabled" \in DOMAIN lastOp'.kw
                => World' = SetLogger(World, Without(lastOp'.kw, "enabled"))
          /\ ("logger" \in DOMAIN lastOp'.kw /\ lastOp'.kw.logger \notin LoggerObjects)
                => /\ ret' = LOGGER_NAME
                   /\ World' = SetLogger(World, Without(lastOp'.kw, "logger")) ]_vars

\* a call with the unknown keyword and a logger option that is no logger
\* returned the named logger and attached a console and a file handler
C8_Witness ==
    /\ IsSetup(lastOp)
    /\ "enabled" \in DOMAIN lastOp.kw
    /\ "logger" \in DOMAIN lastOp.kw /\ lastOp.kw.logger = NotALogger
    /\ "enable_logfile" \in DOMAIN lastOp.kw
    /\ "enable_logger" \notin DOMAIN lastOp.kw
    /\ ret = LOGGER_NAME
    /\ Len(RCHandlers) >= 2
    /\ RCHandlers[Len(RCHandlers)].kind = "file"

-----------------------------------------------------------------------------
(* C9 *)

Config(h) ==
    [kind |-> h.kind, level |-> h.level,
     enable_exceptions |-> h.enable_exceptions, path |-> h.path]

Configs(hs) == [i \in 1..Len(hs) |-> Config(hs[i])]

\* the handlers a call with this configuration is to add
C9_Added(tmpl) ==
    IF ~tmpl.enable_logger THEN <<>>
    ELSE IF ~tmpl.enable_logfile THEN <<Config(StdHandler(tmpl))>>
    ELSE <<Config(StdHandler(tmpl)), Config(FileHandler(tmpl))>>

C9_PassesThresholds(levelno) ==
    /\ levelno >= level[LOGGER_NAME]
    /\ \A i \in 1..Len(RCHandlers) :
          RCHandlers[i].kind = "std" => levelno >= RCHandlers[i].level

\* C9: every call without a logger returns the named logger and appends to
\* its handlers none (enable_logger false), one console handler, or one
\* console handler and then one file handler, keeping those it had; and a
\* logged record that passes the thresholds is written to the console once
\* for each console handler, that is once for each enabling call
C9_SinksOnlyGrow ==
    [][ /\ (IsSetup(lastOp') /\ ~IsInstanceLogger(ApplyKwargs(lastOp'.kw).logger))
              => /\ ret' = LOGGER_NAME
                 /\ Configs(handlers'[LOGGER_NAME])
                      = Configs(RCHandlers) \o C9_Added(ApplyKwargs(lastOp'.kw))
                 /\ handlers'[EXT_LOGGER] = handlers[EXT_LOGGER]
        /\ (IsLog(lastOp') /\ C9_PassesThresholds(lastOp'.levelno))
              => Len(SelectSeq(console', LAMBDA e : e.rec = nRecords'))
                   = Cardinality(HandlerIds("std")) ]_vars

-----------------------------------------------------------------------------
(* C10 *)

\* C10: every record with exception info that a file handler writes has its
\* traceback preceded by the file formatter's extra newline, and its
\* formatting sets that formatter's flag, whether or not the console
\* handler shows tracebacks
C10_FileTracebackSeparated ==
    \A p \in DOMAIN files : \A k \in 1..Len(files[p]) :
        (files[p][k].kind = "line" /\ files[p][k].exc_info)
            => /\ files[p][k].tail = NL \o NL \o TB
               /\ files[p][k].fmt_exc

====
